---- MODULE Spec2Model ----
(***************************************************************************)
(* The knowledge-graph store of obsidian-mcp: KnowledgeGraphDatabase       *)
(* (database.ts) over the SQLite schema of schema.sql.  A state is the     *)
(* content of the tables, the AUTOINCREMENT counters, the full-text index  *)
(* and the outcome of the last call.  Every statement is atomic: when a    *)
(* constraint fails SQLite aborts the statement and nothing it or its      *)
(* triggers wrote remains.                                                 *)
(***************************************************************************)
EXTENDS Integers, Sequences, FiniteSets, Bags, TLC

VARIABLES
    enableWAL,          \* config.enableWAL of the open store
    foreign_keys,       \* PRAGMA foreign_keys of the connection
    journal_mode,       \* PRAGMA journal_mode of the store file
    repaired,           \* history: the last rebuild found a stale index
    knowledge_nodes,    \* set of rows of knowledge_nodes
    semantic_edges,     \* set of rows of semantic_edges
    semantic_entities,  \* set of rows of semantic_entities
    entity_mentions,    \* set of rows of entity_mentions
    state_history,      \* set of rows of state_history
    sync_metadata,      \* set of rows of sync_metadata
    completions,        \* history: completeSync calls that reached each run
    txn,                \* the statement in progress and its uncommitted writes
    knowledge_search,   \* the FTS5 index: a bag of indexed documents
    sqlite_sequence,    \* AUTOINCREMENT: the largest rowid ever used, per table
    now,                \* the clock read by datetime('now')
    last                \* the last call: operation, argument, status, value

vars == <<enableWAL, foreign_keys, journal_mode, repaired, knowledge_nodes, semantic_edges, semantic_entities,
          entity_mentions, state_history, sync_metadata, completions, txn,
          knowledge_search, sqlite_sequence, now, last>>

pragmas == <<enableWAL, foreign_keys, journal_mode>>

tables == <<knowledge_nodes, semantic_edges, semantic_entities,
            entity_mentions, state_history, knowledge_search, sqlite_sequence>>

----------------------------------------------------------------------------
(* Bounds of the model: how many rows of each table are ever inserted.     *)
MaxNodeId == 2
MaxEdgeId == 2
MaxEntityId == 2
MaxMentionId == 2
MaxHistoryId == 2
MaxSyncId == 2
MaxClock == 2
MaxCompletions == 2

----------------------------------------------------------------------------
(* Values.                                                                 *)

\* SQL NULL in a text column; also what JavaScript's `x || null` yields.
NULL == "NULL"
\* A property the caller's object does not carry.
UNDEFINED == "undefined"
\* NULL in an integer column that references a rowid (rowids start at 1).
NullId == 0

\* CHECK (state IN ('plasma', 'fluid', 'gel', 'crystal'))
CLState == {"plasma", "fluid", "gel", "crystal"}
\* CHECK (confidence IN ('low', 'medium', 'high'))
CLConfidence == {"low", "medium", "high"}

\* Status codes of a call.
SQLITE_OK == "SQLITE_OK"
SQLITE_ERROR == "SQLITE_ERROR"
SQLITE_CONSTRAINT_NOTNULL == "SQLITE_CONSTRAINT_NOTNULL"
SQLITE_CONSTRAINT_CHECK == "SQLITE_CONSTRAINT_CHECK"
SQLITE_CONSTRAINT_UNIQUE == "SQLITE_CONSTRAINT_UNIQUE"
SQLITE_CONSTRAINT_FOREIGNKEY == "SQLITE_CONSTRAINT_FOREIGNKEY"

\* new Date().toISOString(): 'YYYY-MM-DDTHH:MM:SS.sssZ' at clock value t.
toISOString(t) == [fmt |-> "iso", t |-> t]
\* datetime('now'): 'YYYY-MM-DD HH:MM:SS' at the store's clock.
datetime_now == [fmt |-> "sql", t |-> now]

\* SQL NULL in a DATETIME column.
NullDate == [fmt |-> NULL, t |-> 0]

\* Clock values per calendar day: both formats put the date first.
TicksPerDay == 2
DateOf(ts) == ts.t \div TicksPerDay
TimeOf(ts) == ts.t % TicksPerDay
\* The character after the date: 'T' in an ISO string, ' ' in datetime()'s.
Separator(ts) == IF ts.fmt = "iso" THEN "T" ELSE " "
\* ' ' (0x20) sorts below 'T' (0x54).
CharLess(a, b) == a = " " /\ b = "T"
\* BINARY collation of two stored timestamps (TEXT values): byte by byte,
\* so the date decides, then the separator, then the time of day.
TextLess(a, b) ==
    \/ DateOf(a) < DateOf(b)
    \/ /\ DateOf(a) = DateOf(b)
       /\ \/ CharLess(Separator(a), Separator(b))
          \/ Separator(a) = Separator(b) /\ TimeOf(a) < TimeOf(b)

\* JavaScript `v || null` on a string: undefined, null and '' become null.
OrNull(v) == IF v \in {UNDEFINED, NULL, ""} THEN NULL ELSE v

----------------------------------------------------------------------------
(* Initialization: applyPragmas, then executeSchema.                       *)

\* The foreign_keys setting after applyPragmas: the default 'ON' unless
\* config.pragmas overrides it (override is UNDEFINED, "ON" or "OFF").
applyPragmas(override) ==
    IF override = UNDEFINED THEN TRUE ELSE override = "ON"

\* A schema file without its PRAGMA block: the setting stays as applyPragmas left it.
executeSchemaWithoutPragmas(fk) == fk

\* executeSchema runs schema.sql, whose last block sets PRAGMA foreign_keys = ON
\* whatever applyPragmas left.
executeSchema(fk) == TRUE

PragmaOverrides == {UNDEFINED, "ON", "OFF"}

\* journal_mode: this.config.enableWAL ? 'WAL' : 'DELETE'
applyJournalMode(wal) == IF wal THEN "wal" ELSE "delete"

\* executeSchema runs schema.sql, whose last block sets PRAGMA journal_mode = WAL
\* whatever applyPragmas left.
executeSchemaJournalMode(mode) == "wal"

\* enableWAL of the configuration the test suite opens the store with.
TEST_CONFIG == [enableWAL |-> TRUE]

\* The tables verifySchema requires; schema.sql creates each of them.
requiredTables ==
    {"knowledge_nodes", "semantic_edges", "semantic_entities", "entity_mentions",
     "state_history", "sync_metadata", "knowledge_search"}

\* The tables of an initialized store file.
sqlite_master == requiredTables \cup {"sqlite_sequence"}

\* CREATE TABLE without IF NOT EXISTS after a DROP: the table starts empty.
CreateTable(master, name, rows, empty) == empty

\* CREATE [VIRTUAL] TABLE IF NOT EXISTS: a table of the file keeps its rows,
\* a missing one is created empty.
CreateTableIfNotExists(master, name, rows, empty) ==
    IF name \in master THEN rows ELSE empty

\* No statement is running: the write lock is free.
NoTxn == [owner |-> "none"]

\* The store after the constructor has run on a new file.
initializeDatabase(wal, override) ==
    /\ enableWAL = wal
    /\ foreign_keys = executeSchema(applyPragmas(override))
    /\ journal_mode = executeSchemaJournalMode(applyJournalMode(wal))
    /\ repaired = FALSE
    /\ knowledge_nodes = {}
    /\ semantic_edges = {}
    /\ semantic_entities = {}
    /\ entity_mentions = {}
    /\ state_history = {}
    /\ sync_metadata = {}
    /\ completions = [id \in 1..MaxSyncId |-> 0]
    /\ txn = NoTxn
    /\ knowledge_search = EmptyBag
    /\ sqlite_sequence = [knowledge_nodes |-> 0, semantic_edges |-> 0,
                          semantic_entities |-> 0, entity_mentions |-> 0,
                          state_history |-> 0, sync_metadata |-> 0]
    /\ now = 0
    /\ last = [op |-> "constructor", arg |-> <<>>, status |-> SQLITE_OK, value |-> 0]

Init == \E override \in PragmaOverrides :
            initializeDatabase(TEST_CONFIG.enableWAL, override)

\* A store opened with any configuration.
InitConfigured ==
    \E wal \in BOOLEAN, override \in PragmaOverrides :
        initializeDatabase(wal, override)

\* What a call leaves behind for its caller.
Returned(op, arg, status, value) ==
    [op |-> op, arg |-> arg, status |-> status, value |-> value]

\* Time passes between two calls.
Tick ==
    /\ now < MaxClock
    /\ now' = now + 1
    /\ last' = Returned("tick", now + 1, SQLITE_OK, 0)
    /\ UNCHANGED <<pragmas, repaired, sync_metadata, completions, txn>>
    /\ UNCHANGED tables

----------------------------------------------------------------------------
(* Full-text index (knowledge_search) and its triggers.                    *)

\* The document the triggers index for a node row.
FtsDoc(row) ==
    [rowid |-> row.id, path |-> row.path, title |-> row.title,
     content_summary |-> row.content_summary, state |-> row.state,
     confidence |-> row.confidence, vault_name |-> row.vault_name]

\* AFTER INSERT ON knowledge_nodes
fts_nodes_insert(fts, new) == fts (+) SetToBag({FtsDoc(new)})

\* An update trigger that indexes the new document and leaves the old one.
fts_nodes_update_insert_only(fts, old, new) == fts (+) SetToBag({FtsDoc(new)})

\* AFTER UPDATE ON knowledge_nodes: 'delete' of the old document, insert of the new
fts_nodes_update(fts, old, new) ==
    (fts (-) SetToBag({FtsDoc(old)})) (+) SetToBag({FtsDoc(new)})

\* BEFORE DELETE ON knowledge_nodes
fts_nodes_delete(fts, old) == fts (-) SetToBag({FtsDoc(old)})

----------------------------------------------------------------------------
(* knowledge_nodes: constraints.                                           *)

\* The NOT NULL text columns of knowledge_nodes.
NodeNotNull(row) ==
    /\ row.path # NULL
    /\ row.title # NULL
    /\ row.state # NULL
    /\ row.confidence # NULL
    /\ row.content_hash # NULL
    /\ row.vault_name # NULL

\* Only the state column carries a CHECK.
NodeCheckStateOnly(row) == row.state \in CLState

\* The CHECK constraints of knowledge_nodes.
NodeCheck(row) ==
    /\ row.state \in CLState
    /\ row.confidence \in CLConfidence

\* A path column without UNIQUE.
NodeUniqueMissing(row, others) == TRUE

\* path TEXT UNIQUE: no other row holds the same path.
NodeUnique(row, others) ==
    \A o \in others : o.path # row.path

\* A table without CHECK constraints.
NodeConstraintWithoutCheck(row, others) ==
    IF ~NodeNotNull(row) THEN SQLITE_CONSTRAINT_NOTNULL
    ELSE IF ~NodeUnique(row, others) THEN SQLITE_CONSTRAINT_UNIQUE
    ELSE SQLITE_OK

\* The outcome of writing `row` beside `others`, in SQLite's order of checks.
NodeConstraint(row, others) ==
    IF ~NodeNotNull(row) THEN SQLITE_CONSTRAINT_NOTNULL
    ELSE IF ~NodeCheck(row) THEN SQLITE_CONSTRAINT_CHECK
    ELSE IF ~NodeUnique(row, others) THEN SQLITE_CONSTRAINT_UNIQUE
    ELSE SQLITE_OK

----------------------------------------------------------------------------
(* Node operations.                                                        *)

insertNode(node) ==
    LET row == [id |-> sqlite_sequence.knowledge_nodes + 1,
                path |-> node.path,
                title |-> node.title,
                state |-> node.state,
                confidence |-> node.confidence,
                content_hash |-> node.content_hash,
                created_at |-> node.created_at,
                modified_at |-> node.modified_at,
                authority_weight |-> node.authority_weight,
                content_summary |-> OrNull(node.content_summary),
                vault_name |-> node.vault_name,
                file_size |-> node.file_size,
                line_count |-> node.line_count]
        rc == NodeConstraint(row, knowledge_nodes)
    IN  /\ rc = SQLITE_OK => row.id <= MaxNodeId
        /\ IF rc = SQLITE_OK
           THEN /\ knowledge_nodes' = knowledge_nodes \cup {row}
                /\ knowledge_search' = fts_nodes_insert(knowledge_search, row)
                /\ sqlite_sequence' = [sqlite_sequence EXCEPT !.knowledge_nodes = row.id]
                /\ last' = Returned("insertNode", node, SQLITE_OK, row.id)
           ELSE /\ UNCHANGED <<knowledge_nodes, knowledge_search, sqlite_sequence>>
                /\ last' = Returned("insertNode", node, rc, 0)
        /\ UNCHANGED <<pragmas, repaired, semantic_edges, semantic_entities,
                       entity_mentions, state_history, sync_metadata, completions, txn, now>>

\* The value `SET field = ?` leaves in a column: the update's when it names the
\* column, the row's own otherwise.
SetClause(old, updates, field) ==
    IF field \in DOMAIN updates THEN updates[field] ELSE old[field]

\* A statement that kept the leftmost of two assignments to modified_at.
SetModifiedAtLeftmost(updates) ==
    IF "modified_at" \in DOMAIN updates THEN updates.modified_at ELSE datetime_now

\* SET ..., modified_at = datetime('now'): when the caller's fields name
\* modified_at the column is assigned twice and the rightmost assignment wins.
SetModifiedAt(updates) == datetime_now

updateNode(id, updates) ==
    LET fields == DOMAIN updates \ {"id"}
        target == {r \in knowledge_nodes : r.id = id}
    IN  /\ IF fields = {}
           THEN \* "SET , modified_at = ..." does not parse: prepare throws
                /\ UNCHANGED tables
                /\ last' = Returned("updateNode", <<id, updates>>, SQLITE_ERROR, 0)
           ELSE IF target = {}
           THEN \* no row matches: nothing written, no error
                /\ UNCHANGED tables
                /\ last' = Returned("updateNode", <<id, updates>>, SQLITE_OK, 0)
           ELSE LET old == CHOOSE r \in target : TRUE
                    new == [id |-> old.id,
                            path |-> SetClause(old, updates, "path"),
                            title |-> SetClause(old, updates, "title"),
                            state |-> SetClause(old, updates, "state"),
                            confidence |-> SetClause(old, updates, "confidence"),
                            content_hash |-> SetClause(old, updates, "content_hash"),
                            created_at |-> SetClause(old, updates, "created_at"),
                            modified_at |-> SetModifiedAt(updates),
                            authority_weight |-> SetClause(old, updates, "authority_weight"),
                            content_summary |-> SetClause(old, updates, "content_summary"),
                            vault_name |-> SetClause(old, updates, "vault_name"),
                            file_size |-> SetClause(old, updates, "file_size"),
                            line_count |-> SetClause(old, updates, "line_count")]
                    rc == NodeConstraint(new, knowledge_nodes \ {old})
                IN  IF rc = SQLITE_OK
                    THEN /\ knowledge_nodes' = (knowledge_nodes \ {old}) \cup {new}
                         /\ knowledge_search' = fts_nodes_update(knowledge_search, old, new)
                         /\ UNCHANGED <<semantic_edges, semantic_entities, entity_mentions,
                                        state_history, sqlite_sequence>>
                         /\ last' = Returned("updateNode", <<id, updates>>, SQLITE_OK, 1)
                    ELSE /\ UNCHANGED tables
                         /\ last' = Returned("updateNode", <<id, updates>>, rc, 0)
        /\ UNCHANGED <<pragmas, repaired, sync_metadata, completions, txn, now>>

\* SELECT * FROM knowledge_nodes WHERE id = ?  (NullId: not found)
getNodeById(id) ==
    IF \E r \in knowledge_nodes : r.id = id
    THEN (CHOOSE r \in knowledge_nodes : r.id = id).id
    ELSE NullId

\* SELECT * FROM knowledge_nodes WHERE path = ? AND vault_name = ?
getNodeByPath(path, vaultName) ==
    IF \E r \in knowledge_nodes : r.path = path /\ r.vault_name = vaultName
    THEN (CHOOSE r \in knowledge_nodes : r.path = path /\ r.vault_name = vaultName).id
    ELSE NullId

----------------------------------------------------------------------------
(* Entity mentions: the mention_count triggers.                            *)

\* AFTER INSERT ON entity_mentions: mention_count + 1 on the mention's entity
update_mention_count_insert(entities, new) ==
    {IF e.id = new.entity_id
     THEN [e EXCEPT !.mention_count = @ + 1, !.modified_at = datetime_now]
     ELSE e : e \in entities}

\* A delete trigger whose UPDATE has no WHERE clause.
update_mention_count_delete_all(entities, old) ==
    {[e EXCEPT !.mention_count = @ - 1, !.modified_at = datetime_now] : e \in entities}

\* AFTER DELETE ON entity_mentions: mention_count - 1 on the mention's entity
update_mention_count_delete(entities, old) ==
    {IF e.id = old.entity_id
     THEN [e EXCEPT !.mention_count = @ - 1, !.modified_at = datetime_now]
     ELSE e : e \in entities}

\* The delete trigger fired once for every row of `deleted`.
RECURSIVE ForEachDeletedMention(_, _)
ForEachDeletedMention(entities, deleted) ==
    IF deleted = {} THEN entities
    ELSE LET old == CHOOSE m \in deleted : TRUE
         IN  ForEachDeletedMention(update_mention_count_delete(entities, old),
                                   deleted \ {old})

----------------------------------------------------------------------------
(* deleteNode: DELETE FROM knowledge_nodes WHERE id = ?, with the foreign-  *)
(* key actions of the tables that reference knowledge_nodes(id).           *)

\* Only source_id cascades.
CascadeEdgesSourceOnly(edges, id) == {e \in edges : e.source_id # id}

\* semantic_edges: source_id and target_id ON DELETE CASCADE
CascadeEdges(edges, id) ==
    {e \in edges : e.source_id # id /\ e.target_id # id}

\* entity_mentions: node_id ON DELETE CASCADE
CascadeMentions(mentions, id) ==
    {m \in mentions : m.node_id # id}

\* A cascade that takes the whole history with the node.
CascadeHistoryAll(history, id) == {}

\* state_history: node_id ON DELETE CASCADE
CascadeHistory(history, id) ==
    {h \in history : h.node_id # id}

\* A foreign key that deletes the entity with its authority node.
CascadeAuthority(entities, id) == {e \in entities : e.authority_node_id # id}

\* semantic_entities: authority_node_id ON DELETE SET NULL
SetNullAuthority(entities, id) ==
    {IF e.authority_node_id = id THEN [e EXCEPT !.authority_node_id = NullId] ELSE e
        : e \in entities}

deleteNode(id) ==
    LET target == {r \in knowledge_nodes : r.id = id}
    IN  /\ IF target = {}
           THEN UNCHANGED tables
           ELSE LET old == CHOOSE r \in target : TRUE
                    mentions == IF foreign_keys
                                THEN CascadeMentions(entity_mentions, id)
                                ELSE entity_mentions
                IN  /\ knowledge_search' = fts_nodes_delete(knowledge_search, old)
                    /\ knowledge_nodes' = knowledge_nodes \ {old}
                    /\ semantic_edges' = IF foreign_keys
                                         THEN CascadeEdges(semantic_edges, id)
                                         ELSE semantic_edges
                    /\ entity_mentions' = mentions
                    /\ state_history' = IF foreign_keys
                                        THEN CascadeHistory(state_history, id)
                                        ELSE state_history
                    /\ semantic_entities' =
                          ForEachDeletedMention(
                              IF foreign_keys
                              THEN SetNullAuthority(semantic_entities, id)
                              ELSE semantic_entities,
                              entity_mentions \ mentions)
                    /\ UNCHANGED sqlite_sequence
        /\ last' = Returned("deleteNode", id, SQLITE_OK, Cardinality(target))
        /\ UNCHANGED <<pragmas, repaired, sync_metadata, completions, txn, now>>

----------------------------------------------------------------------------
(* Edges.                                                                  *)

\* CHECK (confidence >= 0.0 AND confidence <= 1.0); confidence in tenths.
EdgeCheck(row) == row.confidence >= 0 /\ row.confidence <= 10

\* A table without the UNIQUE clause.
EdgeUniqueMissing(row, others) == TRUE

\* UNIQUE(source_id, target_id, relation_type)
EdgeUnique(row, others) ==
    \A o \in others : ~(/\ o.source_id = row.source_id
                        /\ o.target_id = row.target_id
                        /\ o.relation_type = row.relation_type)

\* FOREIGN KEY (source_id), (target_id) REFERENCES knowledge_nodes(id),
\* enforced when PRAGMA foreign_keys is on.
EdgeForeignKeys(row, nodes) ==
    foreign_keys =>
        /\ \E n \in nodes : n.id = row.source_id
        /\ \E n \in nodes : n.id = row.target_id

EdgeConstraint(row, others, nodes) ==
    IF row.relation_type = NULL THEN SQLITE_CONSTRAINT_NOTNULL
    ELSE IF ~EdgeCheck(row) THEN SQLITE_CONSTRAINT_CHECK
    ELSE IF ~EdgeUnique(row, others) THEN SQLITE_CONSTRAINT_UNIQUE
    ELSE IF ~EdgeForeignKeys(row, nodes) THEN SQLITE_CONSTRAINT_FOREIGNKEY
    ELSE SQLITE_OK

\* INSERT OR REPLACE: a stored edge of the same triple gives way to the new row.
insertOrReplaceEdge(edge) ==
    LET row == [id |-> sqlite_sequence.semantic_edges + 1,
                source_id |-> edge.source_id,
                target_id |-> edge.target_id,
                relation_type |-> edge.relation_type,
                confidence |-> edge.confidence,
                evidence |-> OrNull(edge.evidence),
                inferred |-> IF edge.inferred THEN 1 ELSE 0,
                created_at |-> edge.created_at,
                modified_at |-> edge.modified_at,
                weight |-> edge.weight,
                validation_status |-> edge.validation_status]
        replaced == {o \in semantic_edges : ~EdgeUnique(row, {o})}
        rc == EdgeConstraint(row, semantic_edges \ replaced, knowledge_nodes)
    IN  /\ rc = SQLITE_OK => row.id <= MaxEdgeId
        /\ IF rc = SQLITE_OK
           THEN /\ semantic_edges' = (semantic_edges \ replaced) \cup {row}
                /\ sqlite_sequence' = [sqlite_sequence EXCEPT !.semantic_edges = row.id]
                /\ last' = Returned("insertEdge", edge, SQLITE_OK, row.id)
           ELSE /\ UNCHANGED <<semantic_edges, sqlite_sequence>>
                /\ last' = Returned("insertEdge", edge, rc, 0)
        /\ UNCHANGED <<pragmas, repaired, knowledge_nodes, semantic_entities,
                       entity_mentions, state_history, knowledge_search,
                       sync_metadata, completions, txn, now>>

insertEdge(edge) ==
    LET row == [id |-> sqlite_sequence.semantic_edges + 1,
                source_id |-> edge.source_id,
                target_id |-> edge.target_id,
                relation_type |-> edge.relation_type,
                confidence |-> edge.confidence,
                evidence |-> OrNull(edge.evidence),
                inferred |-> IF edge.inferred THEN 1 ELSE 0,
                created_at |-> edge.created_at,
                modified_at |-> edge.modified_at,
                weight |-> edge.weight,
                validation_status |-> edge.validation_status]
        rc == EdgeConstraint(row, semantic_edges, knowledge_nodes)
    IN  /\ rc = SQLITE_OK => row.id <= MaxEdgeId
        /\ IF rc = SQLITE_OK
           THEN /\ semantic_edges' = semantic_edges \cup {row}
                /\ sqlite_sequence' = [sqlite_sequence EXCEPT !.semantic_edges = row.id]
                /\ last' = Returned("insertEdge", edge, SQLITE_OK, row.id)
           ELSE /\ UNCHANGED <<semantic_edges, sqlite_sequence>>
                /\ last' = Returned("insertEdge", edge, rc, 0)
        /\ UNCHANGED <<pragmas, repaired, knowledge_nodes, semantic_entities,
                       entity_mentions, state_history, knowledge_search,
                       sync_metadata, completions, txn, now>>

\* SELECT * FROM semantic_edges WHERE source_id = ? / WHERE target_id = ?
\* (the rows; their order is the ORDER BY's)
getEdgesForNode(nodeId) ==
    [outgoing |-> {e \in semantic_edges : e.source_id = nodeId},
     incoming |-> {e \in semantic_edges : e.target_id = nodeId}]

----------------------------------------------------------------------------
(* State history.                                                          *)

\* FOREIGN KEY (node_id) REFERENCES knowledge_nodes(id)
HistoryForeignKeys(row, nodes) ==
    foreign_keys => \E n \in nodes : n.id = row.node_id

\* A state_history with CHECKs on the states, the confidences and the
\* direction of the transition.
HistoryConstraintLegal(row, nodes) ==
    IF row.to_state = NULL \/ row.to_confidence = NULL THEN SQLITE_CONSTRAINT_NOTNULL
    ELSE IF \/ row.to_state \notin CLState
            \/ row.to_confidence \notin CLConfidence
            \/ row.from_state = "plasma" /\ row.to_state = "crystal"
         THEN SQLITE_CONSTRAINT_CHECK
    ELSE IF ~HistoryForeignKeys(row, nodes) THEN SQLITE_CONSTRAINT_FOREIGNKEY
    ELSE SQLITE_OK

\* state_history declares NOT NULL columns and one foreign key, no CHECK.
HistoryConstraint(row, nodes) ==
    IF row.to_state = NULL \/ row.to_confidence = NULL THEN SQLITE_CONSTRAINT_NOTNULL
    ELSE IF ~HistoryForeignKeys(row, nodes) THEN SQLITE_CONSTRAINT_FOREIGNKEY
    ELSE SQLITE_OK

\* A recording that also moves the node to the recorded state.
recordStateTransitionAndMove(transition) ==
    LET row == [id |-> sqlite_sequence.state_history + 1,
                node_id |-> transition.node_id,
                from_state |-> OrNull(transition.from_state),
                to_state |-> transition.to_state,
                from_confidence |-> OrNull(transition.from_confidence),
                to_confidence |-> transition.to_confidence,
                reason |-> OrNull(transition.reason),
                evidence_quality |-> transition.evidence_quality,
                transition_date |-> transition.transition_date,
                user_id |-> OrNull(transition.user_id)]
        rc == HistoryConstraint(row, knowledge_nodes)
        moved == {IF n.id = row.node_id
                  THEN [n EXCEPT !.state = row.to_state, !.modified_at = datetime_now]
                  ELSE n : n \in knowledge_nodes}
    IN  /\ rc = SQLITE_OK => row.id <= MaxHistoryId
        /\ IF rc = SQLITE_OK
           THEN /\ state_history' = state_history \cup {row}
                /\ knowledge_nodes' = moved
                /\ knowledge_search' = SetToBag({FtsDoc(n) : n \in moved})
                /\ sqlite_sequence' = [sqlite_sequence EXCEPT !.state_history = row.id]
                /\ last' = Returned("recordStateTransition", transition, SQLITE_OK, row.id)
           ELSE /\ UNCHANGED <<state_history, sqlite_sequence, knowledge_nodes,
                               knowledge_search>>
                /\ last' = Returned("recordStateTransition", transition, rc, 0)
        /\ UNCHANGED <<pragmas, repaired, semantic_edges, semantic_entities,
                       entity_mentions, sync_metadata, completions, txn, now>>

recordStateTransition(transition) ==
    LET row == [id |-> sqlite_sequence.state_history + 1,
                node_id |-> transition.node_id,
                from_state |-> OrNull(transition.from_state),
                to_state |-> transition.to_state,
                from_confidence |-> OrNull(transition.from_confidence),
                to_confidence |-> transition.to_confidence,
                reason |-> OrNull(transition.reason),
                evidence_quality |-> transition.evidence_quality,
                transition_date |-> transition.transition_date,
                user_id |-> OrNull(transition.user_id)]
        rc == HistoryConstraint(row, knowledge_nodes)
    IN  /\ rc = SQLITE_OK => row.id <= MaxHistoryId
        /\ IF rc = SQLITE_OK
           THEN /\ state_history' = state_history \cup {row}
                /\ sqlite_sequence' = [sqlite_sequence EXCEPT !.state_history = row.id]
                /\ last' = Returned("recordStateTransition", transition, SQLITE_OK, row.id)
           ELSE /\ UNCHANGED <<state_history, sqlite_sequence>>
                /\ last' = Returned("recordStateTransition", transition, rc, 0)
        /\ UNCHANGED <<pragmas, repaired, knowledge_nodes, semantic_edges, semantic_entities,
                       entity_mentions, knowledge_search, sync_metadata, completions,
                       txn, now>>

\* The orderings of rows that a SELECT ... ORDER BY may return: every
\* arrangement of all the rows in which no row stands before one that
\* Before(_, _) puts first (rows that tie come in either order).
OrderedBy(rows, Before(_, _)) ==
    {s \in [1..Cardinality(rows) -> rows] :
        /\ \A r \in rows : \E i \in DOMAIN s : s[i] = r
        /\ \A i, j \in DOMAIN s : i < j => ~Before(s[j], s[i])}

\* ... ORDER BY transition_date ASC
getStateHistoryAscending(nodeId) ==
    LET Before(a, b) == TextLess(a.transition_date, b.transition_date)
    IN  OrderedBy({h \in state_history : h.node_id = nodeId}, Before)

\* SELECT * FROM state_history WHERE node_id = ? ORDER BY transition_date DESC
getStateHistory(nodeId) ==
    LET Before(a, b) == TextLess(b.transition_date, a.transition_date)
    IN  OrderedBy({h \in state_history : h.node_id = nodeId}, Before)

\* SELECT * FROM knowledge_nodes WHERE state = ? [AND vault_name = ?]
\* ORDER BY authority_weight DESC, modified_at DESC; `if (vaultName)` skips
\* the vault condition for undefined and for ''.
getNodesByState(state, vaultName) ==
    LET Before(a, b) ==
            \/ a.authority_weight > b.authority_weight
            \/ /\ a.authority_weight = b.authority_weight
               /\ TextLess(b.modified_at, a.modified_at)
    IN  OrderedBy({r \in knowledge_nodes :
                      /\ r.state = state
                      /\ vaultName \notin {UNDEFINED, ""} => r.vault_name = vaultName},
                  Before)

----------------------------------------------------------------------------
(* Sync runs.                                                              *)

\* The counters of a sync run.
SyncCounters ==
    {"notes_processed", "notes_added", "notes_updated", "notes_deleted",
     "relationships_found"}

\* An INSERT that records the run as already finished.
startSyncFinished(vaultName) ==
    LET row == [id |-> sqlite_sequence.sync_metadata + 1,
                vault_name |-> vaultName,
                sync_start |-> datetime_now,
                sync_end |-> datetime_now,
                status |-> "completed",
                notes_processed |-> 0, notes_added |-> 0, notes_updated |-> 0,
                notes_deleted |-> 0, relationships_found |-> 0,
                error_message |-> NULL]
    IN  /\ row.id <= MaxSyncId
        /\ sync_metadata' = sync_metadata \cup {row}
        /\ sqlite_sequence' = [sqlite_sequence EXCEPT !.sync_metadata = row.id]
        /\ last' = Returned("startSync", vaultName, SQLITE_OK, row.id)
        /\ UNCHANGED <<pragmas, repaired, knowledge_nodes, semantic_edges, semantic_entities,
                       entity_mentions, state_history, knowledge_search, completions, txn,
                       now>>

\* INSERT ... VALUES (?, datetime('now'), 'running', 0, 0, 0, 0, 0): the
\* columns the statement does not name (sync_end, error_message) are NULL.
startSync(vaultName) ==
    LET row == [id |-> sqlite_sequence.sync_metadata + 1,
                vault_name |-> vaultName,
                sync_start |-> datetime_now,
                sync_end |-> NullDate,
                status |-> "running",
                notes_processed |-> 0, notes_added |-> 0, notes_updated |-> 0,
                notes_deleted |-> 0, relationships_found |-> 0,
                error_message |-> NULL]
    IN  /\ row.id <= MaxSyncId
        /\ sync_metadata' = sync_metadata \cup {row}
        /\ sqlite_sequence' = [sqlite_sequence EXCEPT !.sync_metadata = row.id]
        /\ last' = Returned("startSync", vaultName, SQLITE_OK, row.id)
        /\ UNCHANGED <<pragmas, repaired, knowledge_nodes, semantic_edges, semantic_entities,
                       entity_mentions, state_history, knowledge_search, completions, txn,
                       now>>

updateSyncProgress(syncId, updates) ==
    LET fields == DOMAIN updates \ {"id"}
        target == {r \in sync_metadata : r.id = syncId}
    IN  /\ IF fields = {}
           THEN \* "SET  WHERE id = ?" does not parse: prepare throws
                /\ UNCHANGED sync_metadata
                /\ last' = Returned("updateSyncProgress", <<syncId, updates>>,
                                    SQLITE_ERROR, 0)
           ELSE IF target = {}
           THEN /\ UNCHANGED sync_metadata
                /\ last' = Returned("updateSyncProgress", <<syncId, updates>>,
                                    SQLITE_OK, 0)
           ELSE LET old == CHOOSE r \in target : TRUE
                    new == [id |-> old.id,
                            vault_name |-> SetClause(old, updates, "vault_name"),
                            sync_start |-> SetClause(old, updates, "sync_start"),
                            sync_end |-> SetClause(old, updates, "sync_end"),
                            status |-> SetClause(old, updates, "status"),
                            notes_processed |-> SetClause(old, updates, "notes_processed"),
                            notes_added |-> SetClause(old, updates, "notes_added"),
                            notes_updated |-> SetClause(old, updates, "notes_updated"),
                            notes_deleted |-> SetClause(old, updates, "notes_deleted"),
                            relationships_found |->
                                SetClause(old, updates, "relationships_found"),
                            error_message |-> SetClause(old, updates, "error_message")]
                IN  /\ sync_metadata' = (sync_metadata \ {old}) \cup {new}
                    /\ last' = Returned("updateSyncProgress", <<syncId, updates>>,
                                        SQLITE_OK, 1)
        /\ UNCHANGED <<pragmas, repaired, completions, txn, now>>
        /\ UNCHANGED tables

\* An UPDATE that keeps an error message once one is stored.
SetErrorMessageKeep(old, errorMessage) ==
    IF old.error_message # NULL THEN old.error_message ELSE OrNull(errorMessage)

\* SET ... error_message = ?  bound to  errorMessage || null
SetErrorMessage(old, errorMessage) == OrNull(errorMessage)

completeSync(syncId, status, errorMessage) ==
    LET target == {r \in sync_metadata : r.id = syncId}
    IN  /\ IF target = {}
           THEN UNCHANGED <<sync_metadata, completions>>
           ELSE LET old == CHOOSE r \in target : TRUE
                    new == [old EXCEPT !.status = status,
                                       !.sync_end = datetime_now,
                                       !.error_message =
                                           SetErrorMessage(old, errorMessage)]
                IN  /\ sync_metadata' = (sync_metadata \ {old}) \cup {new}
                    /\ completions' =
                          [completions EXCEPT ![syncId] =
                              IF @ < MaxCompletions THEN @ + 1 ELSE @]
        /\ last' = Returned("completeSync", <<syncId, status, errorMessage>>,
                            SQLITE_OK, Cardinality(target))
        /\ UNCHANGED <<pragmas, repaired, txn, now>>
        /\ UNCHANGED tables

----------------------------------------------------------------------------
(* Statistics.                                                             *)

\* The key `${state}_nodes` of the statistics record.
StateKey(state) == state \o "_nodes"

\* The rows a statistics query counts: `if (vaultName)` adds the WHERE
\* clause, so undefined and '' count every vault.
InVault(rows, vaultName) ==
    IF vaultName \in {UNDEFINED, ""}
    THEN rows
    ELSE {r \in rows : r.vault_name = vaultName}

\* Statistics whose queries carry no WHERE clause.
getStatisticsOfAllVaults(vaultName) ==
    LET states == {r.state : r \in knowledge_nodes}
        keys == {StateKey(st) : st \in states}
                    \cup {"total_nodes", "total_edges", "total_entities"}
    IN  [k \in keys |->
            IF k = "total_nodes" THEN Cardinality(knowledge_nodes)
            ELSE IF k = "total_edges" THEN Cardinality(semantic_edges)
            ELSE IF k = "total_entities" THEN Cardinality(semantic_entities)
            ELSE Cardinality({r \in knowledge_nodes : StateKey(r.state) = k})]

\* SELECT state, COUNT(*) ... GROUP BY state yields a row, and so a key, only
\* for the states that some counted node is in; the three totals are always
\* set.  Edges are counted by the vault of their source node.
getStatistics(vaultName) ==
    LET nodes == InVault(knowledge_nodes, vaultName)
        states == {r.state : r \in nodes}
        keys == {StateKey(st) : st \in states}
                    \cup {"total_nodes", "total_edges", "total_entities"}
    IN  [k \in keys |->
            IF k = "total_nodes" THEN Cardinality(nodes)
            ELSE IF k = "total_edges"
                 THEN Cardinality({e \in semantic_edges :
                                      \E n \in nodes : n.id = e.source_id})
            ELSE IF k = "total_entities"
                 THEN Cardinality(InVault(semantic_entities, vaultName))
            ELSE Cardinality({r \in nodes : StateKey(r.state) = k})]

----------------------------------------------------------------------------
(* Maintenance.                                                            *)

\* INSERT INTO knowledge_search(knowledge_search) VALUES('optimize'): the
\* index keeps the documents it holds.
optimize(nodes) == knowledge_search

\* INSERT INTO knowledge_search(knowledge_search) VALUES('rebuild'): the index
\* is emptied and filled again from the rows of knowledge_nodes.
rebuild(nodes) == SetToBag({FtsDoc(n) : n \in nodes})

\* rebuild, then ANALYZE and (without WAL) VACUUM, which change no row.
maintain ==
    /\ knowledge_search' = rebuild(knowledge_nodes)
    /\ repaired' = (knowledge_search # rebuild(knowledge_nodes))
    /\ last' = Returned("maintain", <<>>, SQLITE_OK, 0)
    /\ UNCHANGED <<pragmas, knowledge_nodes, semantic_edges, semantic_entities,
                   entity_mentions, state_history, sync_metadata, completions, txn,
                   sqlite_sequence, now>>

\* A direct write to the index through getDatabase(): FTS5's 'delete-all'
\* command empties it, an INSERT adds a document no trigger accounts for.
writeIndex(command, doc) ==
    /\ txn.owner = "none"
    /\ knowledge_search' =
          IF command = "delete-all" THEN EmptyBag
          ELSE knowledge_search (+) SetToBag({doc})
    /\ knowledge_search' # knowledge_search
    /\ last' = Returned("getDatabase", command, SQLITE_OK, 0)
    /\ UNCHANGED <<pragmas, repaired, knowledge_nodes, semantic_edges,
                   semantic_entities, entity_mentions, state_history, sync_metadata,
                   completions, txn, sqlite_sequence, now>>

\* The store file is opened again: the constructor applies the pragmas of
\* the new configuration, runs schema.sql over the existing file and
\* verifies the tables.
open(wal, override) ==
    /\ txn.owner = "none"
    /\ enableWAL' = wal
    /\ foreign_keys' = executeSchema(applyPragmas(override))
    /\ journal_mode' = executeSchemaJournalMode(applyJournalMode(wal))
    /\ knowledge_nodes' =
          CreateTableIfNotExists(sqlite_master, "knowledge_nodes", knowledge_nodes, {})
    /\ semantic_edges' =
          CreateTableIfNotExists(sqlite_master, "semantic_edges", semantic_edges, {})
    /\ semantic_entities' =
          CreateTableIfNotExists(sqlite_master, "semantic_entities", semantic_entities, {})
    /\ entity_mentions' =
          CreateTableIfNotExists(sqlite_master, "entity_mentions", entity_mentions, {})
    /\ state_history' =
          CreateTableIfNotExists(sqlite_master, "state_history", state_history, {})
    /\ sync_metadata' =
          CreateTableIfNotExists(sqlite_master, "sync_metadata", sync_metadata, {})
    /\ knowledge_search' =
          CreateTableIfNotExists(sqlite_master, "knowledge_search", knowledge_search,
                                 EmptyBag)
    /\ sqlite_sequence' =
          CreateTableIfNotExists(sqlite_master, "sqlite_sequence", sqlite_sequence,
                                 [t \in DOMAIN sqlite_sequence |-> 0])
    /\ last' = Returned("open", <<wal, override>>,
                        IF requiredTables \subseteq sqlite_master
                        THEN SQLITE_OK ELSE SQLITE_ERROR, 0)
    /\ UNCHANGED <<repaired, completions, txn, now>>

----------------------------------------------------------------------------
(* Entities and mentions (design section 4.4).  The tables, their foreign  *)
(* keys and the mention_count triggers are schema.sql's.                   *)

upsertEntity(name, entityType, vaultName) ==
    LET found == {e \in semantic_entities : e.name = name}
        row == [id |-> sqlite_sequence.semantic_entities + 1,
                name |-> name,
                entity_type |-> entityType,
                description |-> NULL,
                authority_node_id |-> NullId,
                confidence |-> 5,
                vault_name |-> vaultName,
                created_at |-> toISOString(now),
                modified_at |-> toISOString(now),
                mention_count |-> 0]
    IN  /\ found = {} => row.id <= MaxEntityId
        /\ IF found # {}
           THEN /\ UNCHANGED <<semantic_entities, sqlite_sequence>>
                /\ last' = Returned("upsertEntity", <<name, entityType, vaultName>>,
                                    SQLITE_OK, (CHOOSE e \in found : TRUE).id)
           ELSE /\ semantic_entities' = semantic_entities \cup {row}
                /\ sqlite_sequence' = [sqlite_sequence EXCEPT !.semantic_entities = row.id]
                /\ last' = Returned("upsertEntity", <<name, entityType, vaultName>>,
                                    SQLITE_OK, row.id)
        /\ UNCHANGED <<pragmas, repaired, knowledge_nodes, semantic_edges, entity_mentions,
                       state_history, knowledge_search, sync_metadata, completions, txn, now>>

\* FOREIGN KEY (entity_id) REFERENCES semantic_entities(id),
\* FOREIGN KEY (node_id) REFERENCES knowledge_nodes(id)
MentionForeignKeys(row, entities, nodes) ==
    foreign_keys =>
        /\ \E e \in entities : e.id = row.entity_id
        /\ \E n \in nodes : n.id = row.node_id

MentionConstraint(row, entities, nodes) ==
    IF row.mention_text = NULL THEN SQLITE_CONSTRAINT_NOTNULL
    ELSE IF ~MentionForeignKeys(row, entities, nodes) THEN SQLITE_CONSTRAINT_FOREIGNKEY
    ELSE SQLITE_OK

recordMention(mention) ==
    LET row == [id |-> sqlite_sequence.entity_mentions + 1,
                entity_id |-> mention.entity_id,
                node_id |-> mention.node_id,
                mention_text |-> mention.mention_text,
                context |-> OrNull(mention.context),
                confidence |-> mention.confidence,
                position_start |-> mention.position_start,
                position_end |-> mention.position_end,
                mention_type |-> mention.mention_type,
                created_at |-> toISOString(now)]
        rc == MentionConstraint(row, semantic_entities, knowledge_nodes)
    IN  /\ rc = SQLITE_OK => row.id <= MaxMentionId
        /\ IF rc = SQLITE_OK
           THEN /\ entity_mentions' = entity_mentions \cup {row}
                /\ semantic_entities' = update_mention_count_insert(semantic_entities, row)
                /\ sqlite_sequence' = [sqlite_sequence EXCEPT !.entity_mentions = row.id]
                /\ last' = Returned("recordMention", mention, SQLITE_OK, row.id)
           ELSE /\ UNCHANGED <<entity_mentions, semantic_entities, sqlite_sequence>>
                /\ last' = Returned("recordMention", mention, rc, 0)
        /\ UNCHANGED <<pragmas, repaired, knowledge_nodes, semantic_edges, state_history,
                       knowledge_search, sync_metadata, completions, txn, now>>

removeMention(mentionId) ==
    LET target == {m \in entity_mentions : m.id = mentionId}
    IN  /\ entity_mentions' = entity_mentions \ target
        /\ semantic_entities' = ForEachDeletedMention(semantic_entities, target)
        /\ last' = Returned("removeMention", mentionId, SQLITE_OK, Cardinality(target))
        /\ UNCHANGED <<pragmas, repaired, knowledge_nodes, semantic_edges, state_history,
                       knowledge_search, sqlite_sequence, sync_metadata, completions,
                       txn, now>>

\* FOREIGN KEY (authority_node_id) REFERENCES knowledge_nodes(id); a NULL
\* authority references nothing.
AuthorityForeignKey(nodeId, nodes) ==
    foreign_keys => (nodeId = NullId \/ \E n \in nodes : n.id = nodeId)

\* The authority pointer of an entity is set (a node id) or cleared (NullId).
setAuthority(entityId, nodeId) ==
    LET target == {e \in semantic_entities : e.id = entityId}
        rc == IF target # {} /\ ~AuthorityForeignKey(nodeId, knowledge_nodes)
              THEN SQLITE_CONSTRAINT_FOREIGNKEY ELSE SQLITE_OK
    IN  /\ semantic_entities' =
              IF rc = SQLITE_OK
              THEN {IF e \in target
                    THEN [e EXCEPT !.authority_node_id = nodeId,
                                   !.modified_at = toISOString(now)]
                    ELSE e : e \in semantic_entities}
              ELSE semantic_entities
        /\ last' = Returned("setAuthority", <<entityId, nodeId>>, rc,
                            IF rc = SQLITE_OK THEN Cardinality(target) ELSE 0)
        /\ UNCHANGED <<pragmas, repaired, knowledge_nodes, semantic_edges, entity_mentions,
                       state_history, knowledge_search, sqlite_sequence,
                       sync_metadata, completions, txn, now>>

----------------------------------------------------------------------------
(* A statement seen from the other connections.  stmt.run() executes one   *)
(* SQL statement in its own transaction: the row is written, then the      *)
(* triggers of schema.sql fire, then the transaction commits; a crash      *)
(* before the commit rolls everything back.  One connection writes at a    *)
(* time; the others read the committed tables.                             *)

Connections == {"c1", "c2"}

\* A connection that reads the writer's uncommitted pages.
ReadUncommitted(committed, working) == working

\* What the other connections read of a table while a statement is writing
\* it: the committed rows, never the working copy.
Isolated(committed, working) == committed

\* The statement takes the write lock and starts from the committed tables.
Begin(c, op, arg) ==
    /\ txn.owner = "none"
    /\ op = "insertNode" => sqlite_sequence.knowledge_nodes < MaxNodeId
    /\ op = "recordMention" => sqlite_sequence.entity_mentions < MaxMentionId
    /\ txn' = [owner |-> c, op |-> op, arg |-> arg, pc |-> "row",
               status |-> SQLITE_OK, value |-> 0,
               nodes |-> knowledge_nodes, search |-> knowledge_search,
               entities |-> semantic_entities, mentions |-> entity_mentions,
               seq |-> sqlite_sequence, old |-> {}, new |-> {}]
    /\ UNCHANGED <<pragmas, repaired, sync_metadata, completions, now, last>>
    /\ UNCHANGED tables

\* The row an INSERT INTO knowledge_nodes writes (insertNode).
InsertedNodeRow(node, seq) ==
    [c \in {"id"} \cup DOMAIN node |->
        IF c = "id" THEN seq.knowledge_nodes + 1
        ELSE IF c = "content_summary" THEN OrNull(node[c])
        ELSE node[c]]

\* The row an UPDATE knowledge_nodes leaves (updateNode).
UpdatedNodeRow(old, updates) ==
    [c \in DOMAIN old |->
        IF c = "id" THEN old.id
        ELSE IF c = "modified_at" THEN SetModifiedAt(updates)
        ELSE SetClause(old, updates, c)]

\* The row an INSERT INTO entity_mentions writes (recordMention).
InsertedMentionRow(mention, seq) ==
    [c \in {"id", "created_at"} \cup DOMAIN mention |->
        IF c = "id" THEN seq.entity_mentions + 1
        ELSE IF c = "created_at" THEN toISOString(now)
        ELSE IF c = "context" THEN OrNull(mention[c])
        ELSE mention[c]]

\* The statement's own write: the row goes into the working copy when the
\* constraints hold; otherwise the statement ends with the error.
WriteRow(c) ==
    /\ txn.owner = c
    /\ txn.pc = "row"
    /\ LET Fail(rc) == [txn EXCEPT !.pc = "commit", !.status = rc]
           written ==
             IF txn.op = "insertNode"
             THEN LET row == InsertedNodeRow(txn.arg, txn.seq)
                      rc == NodeConstraint(row, txn.nodes)
                  IN  IF rc # SQLITE_OK THEN Fail(rc)
                      ELSE [txn EXCEPT !.pc = "trigger",
                                       !.nodes = @ \cup {row},
                                       !.new = {row},
                                       !.value = row.id,
                                       !.seq = [@ EXCEPT !.knowledge_nodes = row.id]]
             ELSE IF txn.op = "updateNode"
             THEN LET target == {r \in txn.nodes : r.id = txn.arg[1]}
                  IN  IF DOMAIN txn.arg[2] \ {"id"} = {} THEN Fail(SQLITE_ERROR)
                      ELSE IF target = {} THEN [txn EXCEPT !.pc = "commit"]
                      ELSE LET old == CHOOSE r \in target : TRUE
                               row == UpdatedNodeRow(old, txn.arg[2])
                               rc == NodeConstraint(row, txn.nodes \ {old})
                           IN  IF rc # SQLITE_OK THEN Fail(rc)
                               ELSE [txn EXCEPT !.pc = "trigger",
                                                !.nodes = (@ \ {old}) \cup {row},
                                                !.old = {old},
                                                !.new = {row},
                                                !.value = 1]
             ELSE LET row == InsertedMentionRow(txn.arg, txn.seq)
                      rc == MentionConstraint(row, txn.entities, txn.nodes)
                  IN  IF rc # SQLITE_OK THEN Fail(rc)
                      ELSE [txn EXCEPT !.pc = "trigger",
                                       !.mentions = @ \cup {row},
                                       !.new = {row},
                                       !.value = row.id,
                                       !.seq = [@ EXCEPT !.entity_mentions = row.id]]
       IN  /\ txn' = written
           /\ knowledge_nodes' = Isolated(knowledge_nodes, written.nodes)
           /\ entity_mentions' = Isolated(entity_mentions, written.mentions)
    /\ UNCHANGED <<pragmas, repaired, semantic_edges, semantic_entities, state_history,
                   knowledge_search, sqlite_sequence, sync_metadata, completions,
                   now, last>>

\* The trigger of the written row fires inside the same statement.
FireTrigger(c) ==
    /\ txn.owner = c
    /\ txn.pc = "trigger"
    /\ LET new == CHOOSE r \in txn.new : TRUE
           fired ==
             IF txn.op = "insertNode"
             THEN [txn EXCEPT !.pc = "commit",
                              !.search = fts_nodes_insert(@, new)]
             ELSE IF txn.op = "updateNode"
             THEN [txn EXCEPT !.pc = "commit",
                              !.search = fts_nodes_update(
                                             @, CHOOSE r \in txn.old : TRUE, new)]
             ELSE [txn EXCEPT !.pc = "commit",
                              !.entities = update_mention_count_insert(@, new)]
       IN  /\ txn' = fired
           /\ knowledge_search' = Isolated(knowledge_search, fired.search)
           /\ semantic_entities' = Isolated(semantic_entities, fired.entities)
    /\ UNCHANGED <<pragmas, repaired, knowledge_nodes, semantic_edges, entity_mentions,
                   state_history, sqlite_sequence, sync_metadata, completions,
                   now, last>>

\* The commit publishes the working copy at once (a failed statement has
\* written nothing) and the call returns.
Commit(c) ==
    /\ txn.owner = c
    /\ txn.pc = "commit"
    /\ knowledge_nodes' = txn.nodes
    /\ knowledge_search' = txn.search
    /\ semantic_entities' = txn.entities
    /\ entity_mentions' = txn.mentions
    /\ sqlite_sequence' = txn.seq
    /\ last' = Returned(txn.op, txn.arg, txn.status, txn.value)
    /\ txn' = NoTxn
    /\ UNCHANGED <<pragmas, repaired, semantic_edges, state_history, sync_metadata,
                   completions, now>>

\* The writing process dies before the commit: the journal rolls the
\* working copy back and the lock is released.
Crash(c) ==
    /\ txn.owner = c
    /\ txn.pc \in {"row", "trigger"}
    /\ txn' = NoTxn
    /\ last' = Returned("crash", <<txn.op, txn.pc>>, SQLITE_ERROR, 0)
    /\ UNCHANGED <<pragmas, repaired, sync_metadata, completions, now>>
    /\ UNCHANGED tables

----------------------------------------------------------------------------
(* The callers' inputs.                                                    *)

\* A caller's node object; the caller stamps both dates with toISOString().
Node(path, vaultName, state, confidence, summary) ==
    [path |-> path, title |-> "T1", state |-> state, confidence |-> confidence,
     content_hash |-> "h1", created_at |-> toISOString(now),
     modified_at |-> toISOString(now), authority_weight |-> 0,
     content_summary |-> summary, vault_name |-> vaultName,
     file_size |-> 1, line_count |-> 1]

Paths == {"a.md", "b.md"}
Vaults == {"v1", "v2"}

\* "solid" and "certain" are outside the enumerations; '' is an empty summary.
NodeInputs ==
    {Node("a.md", "v1", "fluid", "low", "sum"),
     Node("a.md", "v2", "fluid", "low", UNDEFINED),
     Node("b.md", "v1", "gel", "high", ""),
     Node("a.md", "v1", "solid", "low", UNDEFINED),
     Node("b.md", "v2", "fluid", "certain", "sum")}

UpdateInputs ==
    {<<>>,
     [title |-> "T2"],
     [state |-> "solid", title |-> "T2"],
     [title |-> "T2", confidence |-> "certain"],
     [state |-> "crystal", confidence |-> "high"],
     [path |-> "b.md"],
     [content_summary |-> "sum2", vault_name |-> "v2"]}

NodeIds == 1..(MaxNodeId + 1)

NodeNext ==
    \/ \E node \in NodeInputs : insertNode(node)
    \/ \E id \in NodeIds, updates \in UpdateInputs : updateNode(id, updates)
    \/ \E id \in NodeIds : deleteNode(id)

Spec == Init /\ [][NodeNext]_vars

\* Updates over time: two notes of one state in two vaults, updates that name
\* modified_at (an old and a future caller value), authority_weight and id.
TimedNodeInputs ==
    {Node("a.md", "v1", "fluid", "low", UNDEFINED),
     Node("b.md", "v2", "fluid", "low", UNDEFINED)}

TimedUpdateInputs ==
    {<<>>,
     [id |-> MaxNodeId + 1],
     [id |-> MaxNodeId + 1, title |-> "T2"],
     [title |-> "T2", modified_at |-> toISOString(0)],
     [authority_weight |-> 5, modified_at |-> toISOString(MaxClock + 1)]}

TimedNext ==
    \/ \E node \in TimedNodeInputs : insertNode(node)
    \/ \E id \in NodeIds, updates \in TimedUpdateInputs : updateNode(id, updates)
    \/ Tick

SpecUpdate == Init /\ [][TimedNext]_vars

----------------------------------------------------------------------------
(* The graph around the nodes: edges, entities, mentions and history.      *)

\* A caller's edge object; confidence and weight in tenths.
Edge(source, target, confidence, weight, evidence) ==
    [source_id |-> source, target_id |-> target, relation_type |-> "depends_on",
     confidence |-> confidence, evidence |-> evidence, inferred |-> FALSE,
     created_at |-> toISOString(now), modified_at |-> toISOString(now),
     weight |-> weight, validation_status |-> "unvalidated"]

Mention(entityId, nodeId) ==
    [entity_id |-> entityId, node_id |-> nodeId, mention_text |-> "m",
     context |-> UNDEFINED, confidence |-> 5, position_start |-> 0,
     position_end |-> 1, mention_type |-> "reference"]

Transition(nodeId, from, to) ==
    [node_id |-> nodeId, from_state |-> from, to_state |-> to,
     from_confidence |-> UNDEFINED, to_confidence |-> "medium",
     reason |-> "r", evidence_quality |-> 7,
     transition_date |-> toISOString(now), user_id |-> UNDEFINED]

\* A caller's transition dated by the caller (an ISO string of any time).
TransitionAt(nodeId, from, to, fromConfidence, toConfidence, date) ==
    [node_id |-> nodeId, from_state |-> from, to_state |-> to,
     from_confidence |-> fromConfidence, to_confidence |-> toConfidence,
     reason |-> UNDEFINED, evidence_quality |-> 7,
     transition_date |-> toISOString(date), user_id |-> UNDEFINED]

GraphNodeInputs ==
    {Node("a.md", "v1", "fluid", "low", UNDEFINED),
     Node("b.md", "v1", "gel", "low", UNDEFINED)}

EntityIds == 1..(MaxEntityId + 1)
MentionIds == 1..(MaxMentionId + 1)

\* The values the schema's comment lists for validation_status.
ValidationStatus == {"validated", "disputed", "unvalidated"}

\* Edges between nodes 1 and 2; confidence 15 (1.5) is outside the CHECK's
\* range; node MaxNodeId + 1 is never stored; 'pending' is no validation
\* status.
EdgeInputs ==
    {Edge(1, 2, 5, 10, UNDEFINED),
     [Edge(2, 1, 5, 10, UNDEFINED) EXCEPT !.validation_status = "pending"],
     Edge(1, 2, 9, 20, "ev"),
     Edge(2, 1, 5, 10, UNDEFINED),
     Edge(1, 1, 5, 10, ""),
     Edge(2, 1, 15, 10, UNDEFINED),
     Edge(2, MaxNodeId + 1, 5, 10, UNDEFINED)}

EdgeNext ==
    \/ \E node \in GraphNodeInputs : insertNode(node)
    \/ \E id \in NodeIds : deleteNode(id)
    \/ \E edge \in EdgeInputs : insertEdge(edge)

SpecEdges == Init /\ [][EdgeNext]_vars

EntityNames == {"E", "F"}

MentionInputs == {Mention(e, n) : e \in EntityIds, n \in 1..2}

MentionNext ==
    \/ \E node \in GraphNodeInputs : insertNode(node)
    \/ \E id \in 1..2 : deleteNode(id)
    \/ \E name \in EntityNames : upsertEntity(name, "concept", "v1")
    \/ \E mention \in MentionInputs : recordMention(mention)
    \/ \E id \in MentionIds : removeMention(id)

SpecMentions == Init /\ [][MentionNext]_vars

\* Dependents of node 1, of node 2, and of rows that are never stored.
GraphEdgeInputs ==
    {Edge(1, 2, 5, 10, UNDEFINED),
     Edge(2, 1, 5, 10, UNDEFINED),
     Edge(1, MaxNodeId + 1, 5, 10, UNDEFINED),
     Edge(MaxNodeId + 1, 2, 5, 10, UNDEFINED)}

GraphMentionInputs ==
    {Mention(1, 1), Mention(1, 2), Mention(1, MaxNodeId + 1),
     Mention(MaxEntityId + 1, 1)}

GraphTransitionInputs ==
    {Transition(1, UNDEFINED, "gel"),
     Transition(MaxNodeId + 1, UNDEFINED, "gel")}

GraphNext ==
    \/ \E node \in GraphNodeInputs : insertNode(node)
    \/ \E id \in NodeIds : deleteNode(id)
    \/ \E edge \in GraphEdgeInputs : insertEdge(edge)
    \/ upsertEntity("E", "concept", "v1")
    \/ \E mention \in GraphMentionInputs : recordMention(mention)
    \/ \E transition \in GraphTransitionInputs : recordStateTransition(transition)

SpecGraph == Init /\ [][GraphNext]_vars

\* Transitions of node 1 dated newest first, a jump from plasma to crystal,
\* a step backwards, values outside the enumerations, and a node that is
\* never stored.
HistoryInputs ==
    {TransitionAt(1, "plasma", "crystal", "low", "low", MaxClock),
     TransitionAt(1, UNDEFINED, "gel", UNDEFINED, "medium", 0),
     TransitionAt(1, "crystal", "plasma", "high", "low", 1),
     TransitionAt(2, "solid", "vapour", "certain", "none", 1),
     TransitionAt(MaxNodeId + 1, "fluid", "gel", "low", "low", 1)}

HistoryNext ==
    \/ \E node \in GraphNodeInputs : insertNode(node)
    \/ \E id \in NodeIds : deleteNode(id)
    \/ \E transition \in HistoryInputs : recordStateTransition(transition)

SpecHistory == Init /\ [][HistoryNext]_vars

\* An entity that is given node 1, node 2 or a node that is never stored
\* as its authority and is mentioned in node 2; an authority is cleared by
\* the deletion of its node only.
AuthorityNext ==
    \/ Tick
    \/ \E node \in GraphNodeInputs : insertNode(node)
    \/ \E id \in 1..2 : deleteNode(id)
    \/ upsertEntity("E", "concept", "v1")
    \/ \E nodeId \in {1, 2, MaxNodeId + 1} : setAuthority(1, nodeId)
    \/ recordMention(Mention(1, 2))

SpecAuthority == Init /\ [][AuthorityNext]_vars

\* Two connections whose statements interleave: inserts and updates of
\* nodes, mentions of an entity, and crashes in the middle of a statement.
ConcurrentNext ==
    \/ \E c \in Connections, node \in GraphNodeInputs : Begin(c, "insertNode", node)
    \/ \E c \in Connections, id \in 1..2, updates \in {[title |-> "T2"],
                                                       [state |-> "solid"]} :
          Begin(c, "updateNode", <<id, updates>>)
    \/ \E c \in Connections, id \in 1..2 : Begin(c, "recordMention", Mention(1, id))
    \/ txn.owner = "none" /\ upsertEntity("E", "concept", "v1")
    \/ \E c \in Connections : WriteRow(c)
    \/ \E c \in Connections : FireTrigger(c)
    \/ \E c \in Connections : Commit(c)
    \/ \E c \in Connections : Crash(c)

SpecConcurrent == Init /\ [][ConcurrentNext]_vars

\* Every operation of the store, on two notes with a history each.
StoreTransitionInputs ==
    {Transition(1, UNDEFINED, "gel"), Transition(2, "fluid", "gel")}

StoreNext ==
    \/ \E node \in GraphNodeInputs : insertNode(node)
    \/ \E id \in 1..2 : updateNode(id, [title |-> "T2"])
    \/ \E id \in 1..2 : deleteNode(id)
    \/ insertEdge(Edge(1, 2, 5, 10, UNDEFINED))
    \/ \E transition \in StoreTransitionInputs : recordStateTransition(transition)
    \/ startSync("v1")
    \/ updateSyncProgress(1, [notes_processed |-> 5])
    \/ completeSync(1, "completed", UNDEFINED)
    \/ maintain

SpecStore == Init /\ [][StoreNext]_vars

\* A store that is filled, closed and opened again under every
\* configuration: a node with an edge, a mention of an entity, a history row
\* and a sync run.
OpenNext ==
    \/ \E node \in GraphNodeInputs : insertNode(node)
    \/ deleteNode(1)
    \/ insertEdge(Edge(1, 2, 5, 10, UNDEFINED))
    \/ upsertEntity("E", "concept", "v1")
    \/ recordMention(Mention(1, 1))
    \/ recordStateTransition(Transition(1, UNDEFINED, "gel"))
    \/ startSync("v1")
    \/ completeSync(1, "completed", UNDEFINED)
    \/ \E wal \in BOOLEAN, override \in PragmaOverrides : open(wal, override)

SpecOpen == InitConfigured /\ [][OpenNext]_vars

\* Documents that belong to no stored row: one of a row that never existed
\* and an outdated one of node 1.
StaleDocs ==
    {[rowid |-> MaxNodeId + 1, path |-> "gone.md", title |-> "T1",
      content_summary |-> NULL, state |-> "fluid", confidence |-> "low",
      vault_name |-> "v1"],
     [rowid |-> 1, path |-> "a.md", title |-> "T0",
      content_summary |-> NULL, state |-> "plasma", confidence |-> "low",
      vault_name |-> "v1"]}

\* A store whose index is emptied or polluted by direct writes, under every
\* configuration, and then maintained.
MaintainNext ==
    \/ insertNode(Node("a.md", "v1", "fluid", "low", UNDEFINED))
    \/ deleteNode(1)
    \/ insertEdge(Edge(1, 1, 5, 10, UNDEFINED))
    \/ upsertEntity("E", "concept", "v1")
    \/ recordMention(Mention(1, 1))
    \/ recordStateTransition(Transition(1, UNDEFINED, "gel"))
    \/ startSync("v1")
    \/ writeIndex("delete-all", NULL)
    \/ \E doc \in StaleDocs :
          ~BagIn(doc, knowledge_search) /\ writeIndex("insert", doc)
    \/ maintain

SpecMaintain == InitConfigured /\ [][MaintainNext]_vars

\* A note whose state is changed by updateNode and whose transitions are
\* recorded, in any order and at any time.
TransitionNext ==
    \/ insertNode(Node("a.md", "v1", "fluid", "low", UNDEFINED))
    \/ \E updates \in {[state |-> "gel"], [state |-> "crystal", confidence |-> "high"],
                        [title |-> "T2"]} : updateNode(1, updates)
    \/ deleteNode(1)
    \/ \E transition \in {Transition(1, UNDEFINED, "gel"),
                           Transition(1, "gel", "crystal"),
                           Transition(MaxNodeId + 1, "gel", "crystal")} :
          recordStateTransition(transition)
    \/ Tick

SpecTransition == Init /\ [][TransitionNext]_vars

\* Sync runs over time.  The first run is updated and completed, the later
\* ones are started and left running, and one run is never started.  The
\* updates name counters, nothing, only the id, and the status column.
SyncIds == {1, MaxSyncId + 1}

SyncUpdateInputs ==
    {<<>>,
     [notes_processed |-> 5],
     [id |-> MaxSyncId + 1, notes_added |-> 2, relationships_found |-> 3],
     [status |-> "completed"],
     [status |-> "running"]}

CompleteInputs ==
    {<<"completed", UNDEFINED>>, <<"failed", "boom">>, <<"failed", "">>}

SyncNext ==
    \/ startSync("v1")
    \/ \E id \in SyncIds, updates \in SyncUpdateInputs : updateSyncProgress(id, updates)
    \/ \E id \in SyncIds, c \in CompleteInputs : completeSync(id, c[1], c[2])
    \/ Tick

SpecSync == Init /\ [][SyncNext]_vars

----------------------------------------------------------------------------
(* Properties.                                                             *)

\* The (source_id, target_id, relation_type) triple of an edge row or object.
Triple(e) == <<e.source_id, e.target_id, e.relation_type>>

\* An object that carries a state or a confidence outside the enumerations.
CarriesInvalidEnum(obj) ==
    \/ "state" \in DOMAIN obj /\ obj.state \notin CLState
    \/ "confidence" \in DOMAIN obj /\ obj.confidence \notin CLConfidence

\* C1: right after deleteNode(id) no edge has id as source or target, no
\* mention and no history row has id as node, and getNodeById(id) finds
\* nothing, whatever was inserted before.
C1_DeleteCascades ==
    last.op = "deleteNode" =>
        /\ \A e \in semantic_edges : e.source_id # last.arg /\ e.target_id # last.arg
        /\ getEdgesForNode(last.arg) = [outgoing |-> {}, incoming |-> {}]
        /\ \A m \in entity_mentions : m.node_id # last.arg
        /\ \A h \in state_history : h.node_id # last.arg
        /\ getNodeById(last.arg) = NullId

\* C1 witness: node 1 was deleted while node 2 stays; the two edges ever
\* inserted (1->2 and 2->1), the one history row and one of the two mentions
\* went with it.
C1_Witness ==
    /\ last.op = "deleteNode" /\ last.arg = 1 /\ last.value = 1
    /\ getNodeById(2) = 2
    /\ sqlite_sequence.semantic_edges = 2 /\ semantic_edges = {}
    /\ sqlite_sequence.state_history = 1 /\ state_history = {}
    /\ sqlite_sequence.entity_mentions = 2 /\ Cardinality(entity_mentions) = 1

\* C2: every entity's mention_count is the number of entity_mentions rows of
\* that entity, in every reachable state.
C2_MentionCount ==
    \A e \in semantic_entities :
        e.mention_count = Cardinality({m \in entity_mentions : m.entity_id = e.id})

\* C2 witness: a node was deleted, two mentions had been recorded, one is
\* left and its entity counts one.
C2_Witness ==
    /\ last.op = "deleteNode" /\ last.value = 1
    /\ sqlite_sequence.entity_mentions = 2
    /\ \E m \in entity_mentions : m.id = 1
    /\ Cardinality(entity_mentions) = 1
    /\ \E e \in semantic_entities : e.mention_count = 1

\* C3: the full-text index holds exactly one document per stored node, with
\* the node's current path, title, content_summary, state, confidence and
\* vault_name, and nothing else.
C3_IndexMatchesNodes ==
    knowledge_search = SetToBag({FtsDoc(n) : n \in knowledge_nodes})

\* C3 witness: after an insert, a delete and an update that changed a row.
C3_Witness ==
    /\ last.op = "updateNode" /\ last.value = 1
    /\ sqlite_sequence.knowledge_nodes = 2
    /\ Cardinality(knowledge_nodes) = 1
    /\ \E n \in knowledge_nodes : n.title = "T2" /\ n.id = last.arg[1]

\* C4: insertNode of a node whose (path, vault_name) is stored fails (with
\* the uniqueness error when the node passes NOT NULL and CHECK, which SQLite
\* tests first) and leaves nodes and index as they were; no two stored nodes
\* share (path, vault_name).
C4_DuplicatePathRejected ==
    /\ [](\A n1, n2 \in knowledge_nodes :
            n1.path = n2.path /\ n1.vault_name = n2.vault_name => n1 = n2)
    /\ [][(/\ last'.op = "insertNode"
           /\ \E n \in knowledge_nodes :
                 n.path = last'.arg.path /\ n.vault_name = last'.arg.vault_name)
          => /\ last'.status # SQLITE_OK
             /\ NodeNotNull(last'.arg) /\ NodeCheck(last'.arg)
                    => last'.status = SQLITE_CONSTRAINT_UNIQUE
             /\ knowledge_nodes' = knowledge_nodes
             /\ knowledge_search' = knowledge_search]_vars

\* C4 witness: an insertNode of a stored (path, vault_name) ended in the
\* uniqueness error.
C4_Witness ==
    /\ last.op = "insertNode" /\ last.status = SQLITE_CONSTRAINT_UNIQUE
    /\ \E n \in knowledge_nodes :
          n.path = last.arg.path /\ n.vault_name = last.arg.vault_name

\* C5: insertNode of a well-formed node succeeds when its path is stored only
\* under other vault names, and getNodeByPath(path, vault) then returns the
\* new node.
C5_PathUniquePerVault ==
    [][(/\ last'.op = "insertNode"
        /\ NodeNotNull(last'.arg) /\ NodeCheck(last'.arg)
        /\ \E n \in knowledge_nodes : n.path = last'.arg.path
        /\ \A n \in knowledge_nodes :
              n.path = last'.arg.path => n.vault_name # last'.arg.vault_name)
       => /\ last'.status = SQLITE_OK
          /\ \E n \in knowledge_nodes' :
                /\ n.id = last'.value
                /\ n.path = last'.arg.path /\ n.vault_name = last'.arg.vault_name]_vars

\* C6: insertEdge of a stored (source_id, target_id, relation_type) fails
\* (with the uniqueness error when the confidence passes its CHECK) and
\* stores nothing; at most one edge is stored per triple.
C6_DuplicateEdgeRejected ==
    /\ [](\A e1, e2 \in semantic_edges : Triple(e1) = Triple(e2) => e1 = e2)
    /\ [][(/\ last'.op = "insertEdge"
           /\ \E e \in semantic_edges : Triple(e) = Triple(last'.arg))
          => /\ last'.status # SQLITE_OK
             /\ EdgeCheck(last'.arg) => last'.status = SQLITE_CONSTRAINT_UNIQUE
             /\ semantic_edges' = semantic_edges
             /\ sqlite_sequence' = sqlite_sequence]_vars

\* C6 witness: an insertEdge of a stored triple ended in the uniqueness error.
C6_Witness ==
    /\ last.op = "insertEdge" /\ last.status = SQLITE_CONSTRAINT_UNIQUE
    /\ \E e \in semantic_edges : Triple(e) = Triple(last.arg)

\* C7 as stated: after insertEdge of a well-formed edge whose triple is stored,
\* exactly one edge of that triple is stored and it carries the confidence,
\* weight and evidence of the new call.
C7_ReassertUpdates ==
    [][(/\ last'.op = "insertEdge"
        /\ EdgeCheck(last'.arg)
        /\ \E e \in semantic_edges : Triple(e) = Triple(last'.arg))
       => /\ Cardinality({e \in semantic_edges' : Triple(e) = Triple(last'.arg)}) = 1
          /\ \A e \in semantic_edges' :
                Triple(e) = Triple(last'.arg)
                    => /\ e.confidence = last'.arg.confidence
                       /\ e.weight = last'.arg.weight
                       /\ e.evidence = OrNull(last'.arg.evidence)]_vars

\* C7 amended: after insertEdge of a stored triple exactly one edge of that
\* triple is stored, and it is the row stored before, with the id, confidence,
\* weight and evidence it had.
C7_ReassertKeepsStoredEdge ==
    [][(/\ last'.op = "insertEdge"
        /\ \E e \in semantic_edges : Triple(e) = Triple(last'.arg))
       => /\ Cardinality({e \in semantic_edges' : Triple(e) = Triple(last'.arg)}) = 1
          /\ {e \in semantic_edges' : Triple(e) = Triple(last'.arg)}
                = {e \in semantic_edges : Triple(e) = Triple(last'.arg)}]_vars

\* C7 witness: the triple 1 -> 2 was asserted with confidence 0.9, weight 2.0
\* and evidence, and the stored edge still has confidence 0.5 and weight 1.0.
C7_Witness ==
    /\ last.op = "insertEdge" /\ last.arg.confidence = 9 /\ last.arg.weight = 20
    /\ last.status = SQLITE_CONSTRAINT_UNIQUE
    /\ \E e \in semantic_edges :
          /\ Triple(e) = Triple(last.arg)
          /\ e.confidence = 5 /\ e.weight = 10 /\ e.evidence = NULL

\* Referential integrity of the dependents.
ReferencesExist ==
    /\ \A e \in semantic_edges :
          getNodeById(e.source_id) # NullId /\ getNodeById(e.target_id) # NullId
    /\ \A m \in entity_mentions :
          /\ getNodeById(m.node_id) # NullId
          /\ \E e \in semantic_entities : e.id = m.entity_id
    /\ \A h \in state_history : getNodeById(h.node_id) # NullId

\* C8: insertEdge whose source_id or target_id is no stored node fails and
\* stores nothing; every edge's endpoints, every mention's node and entity and
\* every history row's node are stored rows, in every reachable state.
C8_ReferencesExist ==
    /\ []ReferencesExist
    /\ [][(/\ last'.op = "insertEdge"
           /\ \/ getNodeById(last'.arg.source_id) = NullId
              \/ getNodeById(last'.arg.target_id) = NullId)
          => /\ last'.status # SQLITE_OK
             /\ semantic_edges' = semantic_edges]_vars

\* C8 witness: an insertEdge towards a node that is not stored ended in the
\* foreign-key error, while edges, mentions and history rows are stored.
C8_Witness ==
    /\ last.op = "insertEdge" /\ last.status = SQLITE_CONSTRAINT_FOREIGNKEY
    /\ getNodeById(last.arg.source_id) # NullId
    /\ getNodeById(last.arg.target_id) = NullId
    /\ semantic_edges # {} /\ entity_mentions # {} /\ state_history # {}

C10_InvalidCallWritesNothing ==
    [][(\/ last'.op = "insertNode" /\ CarriesInvalidEnum(last'.arg)
        \/ last'.op = "updateNode" /\ CarriesInvalidEnum(last'.arg[2]))
       => /\ knowledge_nodes' = knowledge_nodes
          /\ knowledge_search' = knowledge_search
          /\ sqlite_sequence' = sqlite_sequence]_vars

\* C10 witness: updateNode(id, {state: 'solid', title: 'T2'}) on a stored node
\* failed and the node's title is still 'T1', its document in the index too.
C10_Witness ==
    /\ last.op = "updateNode" /\ last.status = SQLITE_CONSTRAINT_CHECK
    /\ last.arg[2] = [state |-> "solid", title |-> "T2"]
    /\ \E n \in knowledge_nodes :
          /\ n.id = last.arg[1] /\ n.title = "T1"
          /\ BagIn(FtsDoc(n), knowledge_search)

----------------------------------------------------------------------------
(* Updates, history and sync runs.                                         *)

\* The stored row of node id (when there is one).
NodeRow(nodes, id) == CHOOSE r \in nodes : r.id = id

\* C11: after updateNode(id, fields) on an existing node has run, the node's
\* modified_at is the store's current time, also when fields carries a
\* modified_at value of its own.
C11_ModifiedAtIsStoreTime ==
    [][(/\ last'.op = "updateNode"
        /\ last'.status = SQLITE_OK
        /\ getNodeById(last'.arg[1]) # NullId)
       => NodeRow(knowledge_nodes', last'.arg[1]).modified_at = datetime_now]_vars

\* C11 witness: an update that carried a caller's modified_at (a future one)
\* has been applied to a stored node after the clock moved.
C11_Witness ==
    /\ last.op = "updateNode"
    /\ last.status = SQLITE_OK
    /\ last.value = 1
    /\ "modified_at" \in DOMAIN last.arg[2]
    /\ last.arg[2].modified_at.t > now
    /\ now > 0
    /\ NodeRow(knowledge_nodes, last.arg[1]).modified_at = datetime_now

\* The columns of knowledge_nodes other than id.
NodeColumns ==
    {"path", "title", "state", "confidence", "content_hash", "created_at",
     "modified_at", "authority_weight", "content_summary", "vault_name",
     "file_size", "line_count"}

\* C12: updateNode(id, fields) on an existing node changes only the attributes
\* named in fields, and modified_at: the node keeps its id and every other
\* attribute, every other node is unchanged; with no fields at all the call
\* stamps modified_at with the current time and changes nothing else.
C12_UpdateFrame ==
    [][(last'.op = "updateNode" /\ getNodeById(last'.arg[1]) # NullId)
       => LET id == last'.arg[1]
              fields == DOMAIN last'.arg[2]
              old == NodeRow(knowledge_nodes, id)
          IN  /\ \E new \in knowledge_nodes' :
                    /\ new.id = id
                    /\ knowledge_nodes' \ {new} = knowledge_nodes \ {old}
                    /\ \A c \in NodeColumns \ (fields \cup {"modified_at"}) :
                           new[c] = old[c]
                    /\ fields = {} => new.modified_at = datetime_now
              /\ fields = {} => last'.status = SQLITE_OK]_vars

\* C13: getStateHistory(nodeId) returns exactly the history rows of nodeId,
\* each once, the most recent transition_date first and the oldest last,
\* whatever order the rows were recorded in.
C13_HistoryNewestFirst ==
    \A nodeId \in NodeIds :
        LET rows == {h \in state_history : h.node_id = nodeId}
        IN  /\ getStateHistory(nodeId) # {}
            /\ \A s \in getStateHistory(nodeId) :
                   /\ Len(s) = Cardinality(rows)
                   /\ {s[i] : i \in DOMAIN s} = rows
                   /\ \A i, j \in DOMAIN s :
                          i < j => s[i].transition_date.t >= s[j].transition_date.t

\* C13 witness: node 1 has two history rows of different dates, and the one
\* recorded second carries the older date.
C13_Witness ==
    \E a, b \in state_history :
        /\ a.node_id = 1 /\ b.node_id = 1
        /\ a.id < b.id
        /\ b.transition_date.t < a.transition_date.t
        /\ \E s \in getStateHistory(1) : s[1] = a

\* C14: recordStateTransition for an existing node succeeds whatever states
\* and confidences it asserts, and appends exactly one history row, which
\* holds the asserted values (an absent from-value is stored as NULL).
C14_NoLegalityCheck ==
    [][(/\ last'.op = "recordStateTransition"
        /\ getNodeById(last'.arg.node_id) # NullId)
       => /\ last'.status = SQLITE_OK
          /\ \E row \in state_history' :
                /\ row \notin state_history
                /\ state_history' = state_history \cup {row}
                /\ row.id = last'.value
                /\ row.node_id = last'.arg.node_id
                /\ row.from_state = (IF last'.arg.from_state = UNDEFINED
                                     THEN NULL ELSE last'.arg.from_state)
                /\ row.to_state = last'.arg.to_state
                /\ row.from_confidence = (IF last'.arg.from_confidence = UNDEFINED
                                          THEN NULL ELSE last'.arg.from_confidence)
                /\ row.to_confidence = last'.arg.to_confidence
                /\ row.transition_date = last'.arg.transition_date]_vars

\* C14 witness: a transition from plasma straight to crystal at low
\* confidence has been recorded, and so has one whose values are outside
\* the enumerations.
C14_Witness ==
    /\ last.op = "recordStateTransition"
    /\ last.status = SQLITE_OK
    /\ last.arg.to_state = "vapour"
    /\ \E h \in state_history :
          h.from_state = "plasma" /\ h.to_state = "crystal" /\ h.to_confidence = "low"
    /\ \E h \in state_history : h.id = last.value /\ h.to_confidence = "none"

\* C15: a recorded history row is never modified, and it leaves the table
\* only in a deleteNode of its own node: insertNode, updateNode, insertEdge,
\* recordStateTransition, the sync operations and maintain keep every row
\* as it is.
C15_HistoryAppendOnly ==
    [][\A h \in state_history :
          \/ h \in state_history'
          \/ last'.op = "deleteNode" /\ last'.arg = h.node_id]_vars

\* C15 witness: with a history row of node 1 recorded first, node 1 was
\* updated, an edge stored, a sync run completed with progress, another
\* node deleted, and maintain has just run; the row is still there.
C15_Witness ==
    /\ last.op = "maintain"
    /\ \E h \in state_history : h.id = 1 /\ h.node_id = 1
    /\ \E n \in knowledge_nodes : n.id = 1 /\ n.title = "T2"
    /\ sqlite_sequence.semantic_edges = 1
    /\ sqlite_sequence.knowledge_nodes = 2
    /\ getNodeById(2) = NullId
    /\ \E r \in sync_metadata : r.status = "completed" /\ r.notes_processed = 5

\* C16: getNodesByState(state, vault?) returns exactly the nodes in that
\* state (of that vault when one is given), each once, by descending
\* authority_weight, and of two nodes of equal authority_weight the one
\* modified later never comes after the one modified earlier, whether
\* updateNode stamped the modified_at or insertNode was given it.
C16_NodesByStateOrder ==
    \A state \in CLState, vaultName \in {UNDEFINED} \cup Vaults :
        LET rows == {r \in knowledge_nodes :
                        /\ r.state = state
                        /\ vaultName # UNDEFINED => r.vault_name = vaultName}
        IN  /\ getNodesByState(state, vaultName) # {}
            /\ \A s \in getNodesByState(state, vaultName) :
                   /\ Len(s) = Cardinality(rows)
                   /\ {s[i] : i \in DOMAIN s} = rows
                   /\ \A i, j \in DOMAIN s :
                          i < j =>
                            /\ s[i].authority_weight >= s[j].authority_weight
                            /\ s[i].authority_weight = s[j].authority_weight
                                  => s[i].modified_at.t >= s[j].modified_at.t

\* The stored row of sync run id (when there is one).
SyncRow(runs, id) == CHOOSE r \in runs : r.id = id

\* C17: startSync(vault) adds one sync run, of that vault, with status
\* running, sync_start the current time, sync_end and error_message null and
\* the five counters zero, and returns its id; the runs that existed are
\* unchanged.
C17_StartSyncCreatesRunningRun ==
    [][last'.op = "startSync"
       => /\ last'.status = SQLITE_OK
          /\ \E row \in sync_metadata' :
                /\ row \notin sync_metadata
                /\ sync_metadata' = sync_metadata \cup {row}
                /\ \A r \in sync_metadata : r.id # row.id
                /\ row.id = last'.value
                /\ row.vault_name = last'.arg
                /\ row.status = "running"
                /\ row.sync_start = datetime_now
                /\ row.sync_end = NullDate
                /\ row.error_message = NULL
                /\ \A c \in SyncCounters : row[c] = 0]_vars

\* C17 witness: a second run has just been started while the first one,
\* failed with a message and with progress recorded, is still stored.
C17_Witness ==
    /\ last.op = "startSync"
    /\ last.value = 2
    /\ \E r \in sync_metadata :
          /\ r.id = 1 /\ r.status = "failed" /\ r.error_message = "boom"
          /\ r.notes_processed = 5
    /\ \E r \in sync_metadata : r.id = 2 /\ r.status = "running"

\* C18: every sync run has a status among running, completed and failed,
\* and its sync_end is set exactly when the status is completed or failed.
C18_SyncEndIffFinished ==
    \A r \in sync_metadata :
        /\ r.status \in {"running", "completed", "failed"}
        /\ r.sync_end # NullDate <=> r.status \in {"completed", "failed"}

\* C19: updateSyncProgress(syncId, updates) changes only the counters that
\* updates names: the other counters of the run, its status, sync_start,
\* sync_end, vault_name and error_message, and every other run, are unchanged.
C19_ProgressFrame ==
    [][(last'.op = "updateSyncProgress"
        /\ \E r \in sync_metadata : r.id = last'.arg[1])
       => LET old == SyncRow(sync_metadata, last'.arg[1])
              named == DOMAIN last'.arg[2] \cap SyncCounters
          IN  \E new \in sync_metadata' :
                /\ new.id = old.id
                /\ sync_metadata' \ {new} = sync_metadata \ {old}
                /\ \A c \in SyncCounters \ named : new[c] = old[c]
                /\ new.status = old.status
                /\ new.sync_start = old.sync_start
                /\ new.sync_end = old.sync_end
                /\ new.vault_name = old.vault_name
                /\ new.error_message = old.error_message]_vars

\* C20: a completeSync on a run leaves its counters and the other runs
\* unchanged, and when the run was completed before, the run afterwards has
\* the status and the error_message of this later call (null when the call
\* gives none) and a sync_end that is set.
C20_CompleteTwiceLastWins ==
    [][(last'.op = "completeSync"
        /\ \E r \in sync_metadata : r.id = last'.arg[1])
       => LET old == SyncRow(sync_metadata, last'.arg[1])
          IN  \E new \in sync_metadata' :
                /\ new.id = old.id
                /\ sync_metadata' \ {new} = sync_metadata \ {old}
                /\ \A c \in SyncCounters : new[c] = old[c]
                /\ completions[old.id] >= 1 =>
                      /\ new.status = last'.arg[2]
                      /\ new.error_message =
                            (IF last'.arg[3] \in {UNDEFINED, ""}
                             THEN NULL ELSE last'.arg[3])
                      /\ new.sync_end # NullDate]_vars

\* C20 witness: run 1, with progress recorded, was completed twice, the
\* second time as completed and without a message once the clock had moved;
\* no message is stored.
C20_Witness ==
    /\ completions[1] = 2
    /\ last.op = "completeSync"
    /\ last.arg = <<1, "completed", UNDEFINED>>
    /\ now > 0
    /\ \E r \in sync_metadata :
          /\ r.id = 1 /\ r.notes_processed = 5
          /\ r.status = "completed" /\ r.error_message = NULL
          /\ r.sync_end = datetime_now /\ r.sync_start # r.sync_end

----------------------------------------------------------------------------
(* Statistics, provisioning, maintenance and the lifecycle of runs.        *)

\* The sum of the entries of a record of numbers under the given keys.
RECURSIVE SumOver(_, _)
SumOver(stats, keys) ==
    IF keys = {} THEN 0
    ELSE LET k == CHOOSE x \in keys : TRUE
         IN  stats[k] + SumOver(stats, keys \ {k})

\* C21 as stated: getStatistics(vault) has, for each state, an entry with
\* the number of the vault's nodes in that state, and total_nodes is the
\* number of the vault's nodes and the sum of the per-state entries.
C21_CountForEveryState ==
    \A vaultName \in Vaults :
        LET stats == getStatistics(vaultName)
            nodes == {n \in knowledge_nodes : n.vault_name = vaultName}
        IN  /\ \A st \in CLState :
                  /\ StateKey(st) \in DOMAIN stats
                  /\ stats[StateKey(st)] = Cardinality({n \in nodes : n.state = st})
            /\ stats["total_nodes"] = Cardinality(nodes)

\* C21 amended: getStatistics(vault) has an entry for exactly the states
\* that some node of the vault is in, holding the number of the vault's
\* nodes in that state; a state without such a node has no entry;
\* total_nodes is the number of the vault's nodes and the sum of the
\* per-state entries; nodes of other vaults are not counted.
C21_StatisticsPerVault ==
    \A vaultName \in Vaults :
        LET stats == getStatistics(vaultName)
            nodes == {n \in knowledge_nodes : n.vault_name = vaultName}
            present == {st \in CLState : StateKey(st) \in DOMAIN stats}
        IN  /\ present = {n.state : n \in nodes}
            /\ \A st \in present :
                  stats[StateKey(st)] = Cardinality({n \in nodes : n.state = st})
            /\ stats["total_nodes"] = Cardinality(nodes)
            /\ stats["total_nodes"] = SumOver(stats, {StateKey(st) : st \in present})

\* C21 witness: each of two vaults holds one node, in different states, one
\* of them moved to its state by an update.
C21_Witness ==
    /\ last.op = "updateNode" /\ last.value = 1
    /\ \E a, b \in knowledge_nodes :
          /\ a.vault_name = "v1" /\ b.vault_name = "v2"
          /\ a.state # b.state
          /\ "crystal" \in {a.state, b.state}
    /\ getStatistics("v1")["total_nodes"] = 1
    /\ getStatistics(UNDEFINED)["total_nodes"] = 2

\* C22: whatever the connections interleave, the tables that a caller can
\* read never show a partial update: a node row that is new or changed has
\* its full-text entry, the entry of the row it replaced is gone, a mention
\* row that appears comes with its entity's mention_count raised by one,
\* and in every state the index matches the nodes and each count its
\* mentions.
C22_NoPartialUpdateVisible ==
    /\ [](/\ knowledge_search = SetToBag({FtsDoc(n) : n \in knowledge_nodes})
          /\ \A e \in semantic_entities :
                e.mention_count =
                    Cardinality({m \in entity_mentions : m.entity_id = e.id}))
    /\ [][/\ \A n \in knowledge_nodes' \ knowledge_nodes :
                BagIn(FtsDoc(n), knowledge_search')
          /\ \A n \in knowledge_nodes \ knowledge_nodes' :
                ~BagIn(FtsDoc(n), knowledge_search')
          /\ \A m \in entity_mentions' \ entity_mentions :
                \E e \in semantic_entities, f \in semantic_entities' :
                   /\ e.id = m.entity_id /\ f.id = e.id
                   /\ f.mention_count = e.mention_count + 1]_vars

\* C22 witness: one connection has committed, and the other is in the middle
\* of a statement whose row is written and whose trigger has not fired: an
\* updated node row without its index entry, or a mention row without its
\* count, exists in the working copy only.
C22_Witness ==
    /\ txn.owner = "c2"
    /\ txn.pc = "trigger"
    /\ last.op = "recordMention" /\ last.status = SQLITE_OK
    /\ txn.op = "updateNode"
    /\ txn.nodes # knowledge_nodes
    /\ txn.search = knowledge_search
    /\ \E n \in txn.nodes : ~BagIn(FtsDoc(n), txn.search)
    /\ \E e \in semantic_entities : e.mention_count = 1

\* C23: each entity's authority_node_id is null or the id of a stored node,
\* and deleting a node keeps every entity: the entities that named it as
\* authority stay with authority_node_id null, every entity keeps its other
\* columns but mention_count and modified_at (the mention triggers' columns),
\* and every mention of another node stays.
C23_AuthorityWeak ==
    /\ [](\A e \in semantic_entities :
             \/ e.authority_node_id = NullId
             \/ \E n \in knowledge_nodes : n.id = e.authority_node_id)
    /\ [][(last'.op = "deleteNode" /\ last'.value = 1) =>
            /\ \A e \in semantic_entities :
                  \E f \in semantic_entities' :
                     /\ f.id = e.id
                     /\ f.authority_node_id =
                           IF e.authority_node_id = last'.arg THEN NullId
                           ELSE e.authority_node_id
                     /\ f.mention_count =
                           Cardinality({m \in entity_mentions' : m.entity_id = f.id})
                     /\ [f EXCEPT !.authority_node_id = NullId, !.mention_count = 0,
                                  !.modified_at = NullDate]
                          = [e EXCEPT !.authority_node_id = NullId, !.mention_count = 0,
                                      !.modified_at = NullDate]
            /\ Cardinality(semantic_entities') = Cardinality(semantic_entities)
            /\ entity_mentions' = {m \in entity_mentions : m.node_id # last'.arg}]_vars

\* C23 witness: node 1 has just been deleted and node 2 never was; an entity
\* mentioned in node 2 was given an authority after its creation (its
\* modified_at is a later ISO time) and has none now, so its authority was
\* node 1; it is stored with its mention in node 2.
C23_Witness ==
    /\ last.op = "deleteNode" /\ last.arg = 1 /\ last.value = 1
    /\ sqlite_sequence.knowledge_nodes = 2
    /\ \E n \in knowledge_nodes : n.id = 2
    /\ \E e \in semantic_entities :
          /\ e.authority_node_id = NullId
          /\ e.modified_at.fmt = "iso"
          /\ e.modified_at # e.created_at
          /\ e.mention_count = 1
          /\ \E m \in entity_mentions : m.entity_id = e.id /\ m.node_id = 2

\* C24: opening the store on an initialized file succeeds and leaves every
\* row of nodes, edges, entities, mentions, history and sync runs, the
\* AUTOINCREMENT counters and the full-text index as they were.
C24_OpenIdempotent ==
    [][last'.op = "open" =>
         /\ last'.status = SQLITE_OK
         /\ knowledge_nodes' = knowledge_nodes
         /\ semantic_edges' = semantic_edges
         /\ semantic_entities' = semantic_entities
         /\ entity_mentions' = entity_mentions
         /\ state_history' = state_history
         /\ sync_metadata' = sync_metadata
         /\ sqlite_sequence' = sqlite_sequence
         /\ knowledge_search' = knowledge_search]_vars

\* C24 witness: a file that holds nodes, an edge, an entity with a mention,
\* a history row, a sync run and index entries has just been opened again.
C24_Witness ==
    /\ last.op = "open"
    /\ last.status = SQLITE_OK
    /\ Cardinality(knowledge_nodes) = 2
    /\ semantic_edges # {}
    /\ \E e \in semantic_entities : e.mention_count = 1
    /\ entity_mentions # {}
    /\ state_history # {}
    /\ sync_metadata # {}
    /\ BagCardinality(knowledge_search) = 2

\* C25: after initialization the journal mode is WAL exactly when enableWAL
\* is true, and foreign keys are enforced under every configuration.
C25_JournalModeFollowsFlag ==
    /\ (journal_mode = "wal") <=> enableWAL
    /\ foreign_keys

\* C26: every stored edge has a validation_status of validated, disputed or
\* unvalidated, and insertEdge with any other value fails and stores nothing.
C26_ValidationStatusEnum ==
    /\ [](\A e \in semantic_edges : e.validation_status \in ValidationStatus)
    /\ [][(/\ last'.op = "insertEdge"
           /\ last'.arg.validation_status \notin ValidationStatus) =>
              /\ last'.status # SQLITE_OK
              /\ semantic_edges' = semantic_edges]_vars

\* C27: maintain changes no row of nodes, edges, entities, mentions, history
\* or sync runs, and after it the full-text index holds exactly one
\* document per current node, whatever it held before.
C27_MaintainRebuildsIndex ==
    [][last'.op = "maintain" =>
         /\ knowledge_nodes' = knowledge_nodes
         /\ semantic_edges' = semantic_edges
         /\ semantic_entities' = semantic_entities
         /\ entity_mentions' = entity_mentions
         /\ state_history' = state_history
         /\ sync_metadata' = sync_metadata
         /\ knowledge_search' = SetToBag({FtsDoc(n) : n \in knowledge_nodes'})]_vars

\* C27 witness: maintain has just run on a store with rows in every table
\* whose index did not match its nodes, and the index matches them now.
C27_Witness ==
    /\ last.op = "maintain"
    /\ repaired
    /\ ~enableWAL
    /\ knowledge_nodes # {}
    /\ semantic_edges # {}
    /\ entity_mentions # {}
    /\ state_history # {}
    /\ sync_metadata # {}
    /\ knowledge_search = SetToBag({FtsDoc(n) : n \in knowledge_nodes})

\* C28: in every result of getStateHistory for a node, a transition recorded
\* later (larger id) stands before one recorded earlier whenever its
\* transition_date is not older, equal dates included.
C28_LaterRecordedFirst ==
    \A nodeId \in NodeIds :
        \A s \in getStateHistory(nodeId) :
            \A i, j \in DOMAIN s :
                (/\ s[i].id > s[j].id
                 /\ ~TextLess(s[i].transition_date, s[j].transition_date)) => i < j

\* C29: recordStateTransition changes no node row (state, confidence and
\* modified_at stay) and no index entry, and a stored node's state changes
\* only in a step of updateNode.
C29_TransitionLeavesNode ==
    [][/\ last'.op = "recordStateTransition" =>
             /\ knowledge_nodes' = knowledge_nodes
             /\ knowledge_search' = knowledge_search
       /\ \A n \in knowledge_nodes, m \in knowledge_nodes' :
             (m.id = n.id /\ m.state # n.state) => last'.op = "updateNode"]_vars

\* C29 witness: a transition of node 1 to 'crystal' has just been recorded
\* at a later time than the node's last change; the node is still 'fluid',
\* unlike the to_state of its latest history row.
C29_Witness ==
    /\ last.op = "recordStateTransition"
    /\ last.status = SQLITE_OK
    /\ \E n \in knowledge_nodes, h \in state_history :
          /\ n.id = 1 /\ h.node_id = 1
          /\ h.id = sqlite_sequence.state_history
          /\ h.id = last.value
          /\ h.to_state = "crystal"
          /\ n.state = "fluid"
          /\ n.modified_at.t < now

\* C30: a sync run whose status is completed or failed keeps a status of
\* completed or failed in every later state, and its sync_end, once set,
\* is never null again.
C30_FinalizedIsTerminal ==
    [][\A r \in sync_metadata :
          r.status \in {"completed", "failed"} =>
             \E q \in sync_metadata' :
                /\ q.id = r.id
                /\ q.status \in {"completed", "failed"}
                /\ r.sync_end # NullDate => q.sync_end # NullDate]_vars

====
